---- MODULE Spec2Model ----
(***************************************************************************)
(* Model of the WS2812 bit-banging driver of src/src/lib.rs: the struct    *)
(* Ws2812 { pin, magic_number }, its constructor new, set_magic_number,    *)
(* wait, write_bit, write_byte and SmartLedsWrite::write.                  *)
(*                                                                         *)
(* One action per statement of write_bit / write_byte / write, so that the *)
(* pin level between the statements is a state of the model.  A call of    *)
(* wait is one step that runs the whole `for _ in 0..magic_number` loop.   *)
(* The output pin is the environment: each set_high / set_low either       *)
(* succeeds or fails, and the driver discards the outcome with .ok().      *)
(***************************************************************************)
EXTENDS Integers, Naturals, Sequences, FiniteSets, TLC

\* ---------------------------------------------------------------- bounds
\* longest colour sequence handed to one write call
MaxLen == 2

\* fastest clock, in MHz, the magic number formula is evaluated for
MaxClockMHz == 720

\* ------------------------------------------------------------- constants
\* the formula's value at 600 MHz cut off instead of rounded
DefaultMagicTruncated == 50 - 1
\* Self { pin, magic_number: 50 }
DefaultMagic == 50
\* a byte loop that is one iteration short
BitsPerByteShort == 8 - 1
\* for _ in 0..8 (write_byte)
BitsPerByte == 8
\* latch loops that are one and two iterations short
LatchUnits19 == 20 - 1
LatchUnits18 == 20 - 2
\* for _ in 0..20 (latch of write)
LatchUnits == 20
\* "Wait for (ideally) 333ns": documented length of one delay unit, in ns
WaitNs == 333
\* "wait at least 6us": documented minimum latch, in ns
LatchMinNs == 6000
\* `333/((1000/CLOCK_SPEED_MHZ) * 4)`: cycles of one loop iteration
CyclesPerLoop == 4
\* `e.g.: 333/((1000/600) * 4) = ~50`: the clock of the worked example
ExampleClockMHz == 600
\* width of the u8 fields and arguments
U8 == 256

Byte == 0 .. (U8 - 1)

\* RGB8 values handed to write: the colour of the crate example
\* (r: 0x10, g: 0, b: 0) and one whose three channels all differ
Colors == { [r |-> 16, g |-> 0, b |-> 0], [r |-> 129, g |-> 255, b |-> 15] }

\* the colour sequences a caller passes in the driver specification
ColorSeqs == UNION { [1 .. n -> Colors] : n \in 0 .. MaxLen }

\* 256 colours in which every byte value occurs in every channel
ByteColors == { [r |-> (x + 85) % U8, g |-> x, b |-> (x + 170) % U8] : x \in Byte }

\* magic numbers passed to set_magic_number in the driver specification
MagicVals == {0, DefaultMagic}

\* ------------------------------------------------------------ pure parts
\* the channels in memory order instead of protocol order
ChannelOrderRGB(item) == << item.r, item.g, item.b >>

\* write: self.write_byte(item.g); self.write_byte(item.r); self.write_byte(item.b)
ChannelOrder(item) == << item.g, item.r, item.b >>

\* testing the bottom bit instead of the top bit
BottomBit(data) == data % 2 = 1

\* write_byte: (data & 0x80) != 0
TopBit(data) == data >= 128

\* write_byte: data <<= 1 on a u8
ShiftLeft(data) == (data * 2) % U8

\* the 1 branch commanding the pin high a second time instead of low
BitStmtsNoLow(b) ==
  IF b THEN << "set_high", "wait", "wait", "set_high", "wait" >>
       ELSE << "set_high", "wait", "set_low", "wait", "wait" >>

\* the two branches exchanged
BitStmtsSwapped(b) ==
  IF b THEN << "set_high", "wait", "set_low", "wait", "wait" >>
       ELSE << "set_high", "wait", "wait", "set_low", "wait" >>

\* the 0 branch dropping the pin before its first delay unit
BitStmtsEarlyLow(b) ==
  IF b THEN << "set_high", "wait", "wait", "set_low", "wait" >>
       ELSE << "set_high", "set_low", "wait", "wait", "wait" >>

\* the 0 branch with one delay unit too many
BitStmtsExtraWait(b) ==
  IF b THEN << "set_high", "wait", "wait", "set_low", "wait" >>
       ELSE << "set_high", "wait", "set_low", "wait", "wait", "wait" >>

\* the 0 branch commanding the pin low a second time at its end
BitStmtsDoubleLow(b) ==
  IF b THEN << "set_high", "wait", "wait", "set_low", "wait" >>
       ELSE << "set_high", "wait", "set_low", "wait", "set_low" >>

\* write_bit: the statements of the two branches, in order
BitStmts(b) ==
  IF b THEN << "set_high", "wait", "wait", "set_low", "wait" >>
       ELSE << "set_high", "wait", "set_low", "wait", "wait" >>

\* a loop bound that ignores the magic_number field
WaitLoopsFixed(m) == 50

\* wait: number of iterations of `for _ in 0..(self.magic_number)`
WaitLoops(m) == m

\* the pin after set_high / set_low: the level asked for when the call
\* succeeds, the level it had when the call fails
PinSet(cur, want, ok) == IF ok THEN want ELSE cur

\* a failed pin call abandoning the bit, which write_byte then starts again
AfterPinOpRetry(ok, next) == IF ok THEN next ELSE "write_byte"

\* unwrapping the Result instead of dropping it: a failed call halts
AfterPinOpUnwrap(ok, next) == IF ok THEN next ELSE "halt"

\* `.ok()` after every pin call: the Result is dropped and control goes on
AfterPinOp(ok, next) == next

\* reporting a failed pin call to the caller
WriteResultPropagate(anyFailed) == IF anyFailed THEN "Err" ELSE "Ok"

\* write: `Ok(())`, whatever the pin calls returned
WriteResult(anyFailed) == "Ok"

\* exact fractions << numerator, denominator >> for the documented formula
FracMul(a, b) == << a[1] * b[1], a[2] * b[2] >>

FracDiv(a, b) == << a[1] * b[2], a[2] * b[1] >>

\* a fraction cut off to an integer
Trunc(q) == q[1] \div q[2]

\* a fraction rounded to the nearest integer
RoundNearest(q) == (2 * q[1] + q[2]) \div (2 * q[2])

\* the ratio taken the wrong way round: cycles per ns instead of ns per cycle
NsPerCycleInverted(clock) == FracDiv(<< clock, 1 >>, << 1000, 1 >>)

\* `(1000/CLOCK_SPEED_MHZ)`: ns of one clock cycle
NsPerCycle(clock) == FracDiv(<< 1000, 1 >>, << clock, 1 >>)

\* `333/((1000/CLOCK_SPEED_MHZ) * 4)`: loop iterations of one delay unit
MagicFormula(clock) ==
  FracDiv(<< WaitNs, 1 >>, FracMul(NsPerCycle(clock), << CyclesPerLoop, 1 >>))

\* ----------------------------------------------------------------- state
VARIABLES
  pc,            \* "start" (no driver yet), "idle", "write", "write_byte",
                 \* "write_bit", "latch"
  magic_number,  \* Ws2812.magic_number
  level,         \* electrical level of the pin: "low" / "high"
  lastOp,        \* last pin call attempted: "none", "set_low", "set_high"
  lastOk,        \* whether that call succeeded
  iterator,      \* the colour sequence of the current (or last) write
  idx,           \* position of the `for item in iterator` loop
  chan,          \* which write_byte call of the loop body is next (1..3)
  data,          \* write_byte's `data`
  i,             \* write_byte's loop counter
  bit,           \* write_bit's `bit`
  step,          \* next statement of write_bit (1..5)
  latch_i,       \* loop counter of the latch loop
  result,        \* value returned by the last write: "none" while running
  log,           \* what the current (or last) write has done so far
  prev,          \* log of the write before it
  calc           \* last evaluation of the documented magic number formula

vars == << pc, magic_number, level, lastOp, lastOk, iterator, idx, chan, data,
           i, bit, step, latch_i, result, log, prev, calc >>

NewLog(m) ==
  [ magic |-> m, bytes |-> << >>, pulses |-> << >>, hi |-> 0, lo |-> 0,
    nHigh |-> 0, nLow |-> 0, nWait |-> 0, latchWaits |-> 0, latchLoops |-> 0,
    bitEv |-> << >>, failed |-> FALSE ]

NoPrev ==
  [ valid |-> FALSE, colors |-> << >>, magic |-> 0, bytes |-> << >>,
    pulses |-> << >>, latchLoops |-> 0 ]

Levels == {"low", "high"}

\* the formula has not been evaluated
NoCalc == [ valid |-> FALSE, clock |-> 0, exact |-> << 0, 1 >> ]

\* before new: nothing is known about the pin
Init ==
  /\ pc = "start"
  /\ magic_number = 0
  /\ level \in Levels
  /\ lastOp = "none"
  /\ lastOk = TRUE
  /\ iterator = << >>
  /\ idx = 1
  /\ chan = 1
  /\ data = 0
  /\ i = 0
  /\ bit = FALSE
  /\ step = 1
  /\ latch_i = 0
  /\ result = "none"
  /\ log = NewLog(0)
  /\ prev = NoPrev
  /\ calc = NoCalc

\* ------------------------------------------------------------ operations
\* a constructor that takes the pin as it is, without commanding it low
NewNoSetLow ==
  /\ pc = "start"
  /\ pc' = "idle"
  /\ magic_number' = DefaultMagic
  /\ UNCHANGED << calc, level, lastOp, lastOk, iterator, idx, chan, data, i, bit,
                  step, latch_i, result, log, prev >>

\* pub fn new(mut pin: PIN): pin.set_low().ok(); Self { pin, magic_number: 50 }
New ==
  /\ pc = "start"
  /\ \E ok \in BOOLEAN :
       /\ level' = PinSet(level, "low", ok)
       /\ lastOk' = ok
       /\ pc' = AfterPinOp(ok, "idle")
  /\ lastOp' = "set_low"
  /\ magic_number' = DefaultMagic
  /\ UNCHANGED << calc, iterator, idx, chan, data, i, bit, step, latch_i, result,
                  log, prev >>

\* pub fn set_magic_number(&mut self, num: u8)
SetMagicNumber(num) ==
  /\ pc = "idle"
  /\ magic_number' = num
  /\ UNCHANGED << calc, pc, level, lastOp, lastOk, iterator, idx, chan, data, i,
                  bit, step, latch_i, result, log, prev >>

\* fn write(&mut self, iterator): entry
Write(cs) ==
  /\ pc = "idle"
  /\ pc' = "write"
  /\ iterator' = cs
  /\ idx' = 1
  /\ chan' = 1
  /\ result' = "none"
  /\ prev' = IF result = "Ok"
               THEN [ valid |-> TRUE, colors |-> iterator, magic |-> log.magic,
                      bytes |-> log.bytes, pulses |-> log.pulses,
                      latchLoops |-> log.latchLoops ]
               ELSE prev
  /\ log' = NewLog(magic_number)
  /\ UNCHANGED << calc, magic_number, level, lastOp, lastOk, data, i, bit, step,
                  latch_i >>

\* for item in iterator { ... self.write_byte(item.<channel>) }: the call
WriteLoop ==
  /\ pc = "write"
  /\ idx <= Len(iterator)
  /\ LET byte == ChannelOrder(iterator[idx])[chan] IN
       /\ data' = byte
       /\ log' = [log EXCEPT !.bytes = Append(@, byte)]
  /\ i' = 0
  /\ pc' = "write_byte"
  /\ UNCHANGED << calc, magic_number, level, lastOp, lastOk, iterator, idx, chan,
                  bit, step, latch_i, result, prev >>

\* for item in iterator: the iterator is exhausted, go on to the latch loop
WriteLoopEnd ==
  /\ pc = "write"
  /\ idx > Len(iterator)
  /\ pc' = "latch"
  /\ latch_i' = 0
  /\ UNCHANGED << calc, magic_number, level, lastOp, lastOk, iterator, idx, chan,
                  data, i, bit, step, result, log, prev >>

\* write_byte: for _ in 0..8 { self.write_bit((data & 0x80) != 0); ...
WriteByteLoop ==
  /\ pc = "write_byte"
  /\ i < BitsPerByte
  /\ bit' = TopBit(data)
  /\ step' = 1
  /\ pc' = "write_bit"
  /\ log' = [log EXCEPT !.hi = 0, !.lo = 0, !.bitEv = << >>]
  /\ UNCHANGED << calc, magic_number, level, lastOp, lastOk, iterator, idx, chan,
                  data, i, latch_i, result, prev >>

\* write_byte: the loop is over, return into the body of write's loop
WriteByteReturn ==
  /\ pc = "write_byte"
  /\ i >= BitsPerByte
  /\ pc' = "write"
  /\ IF chan < 3
       THEN chan' = chan + 1 /\ idx' = idx
       ELSE chan' = 1 /\ idx' = idx + 1
  /\ UNCHANGED << calc, magic_number, level, lastOp, lastOk, iterator, data, i, bit,
                  step, latch_i, result, log, prev >>

\* write_bit: control after the statement at `step`, given the log l that
\* statement leaves; after the last statement write_bit returns into
\* write_byte, which then executes `data <<= 1` and counts the iteration
BitAdvance(l, nextpc) ==
  IF nextpc # "write_bit"
    THEN /\ pc' = nextpc
         /\ log' = l
         /\ UNCHANGED << step, data, i >>
    ELSE IF step < Len(BitStmts(bit))
      THEN /\ pc' = "write_bit"
           /\ step' = step + 1
           /\ log' = l
           /\ UNCHANGED << data, i >>
      ELSE /\ pc' = "write_byte"
           /\ step' = 1
           /\ data' = ShiftLeft(data)
           /\ i' = i + 1
           /\ log' = [l EXCEPT !.pulses =
                                  Append(@, [bit |-> bit, hi |-> l.hi, lo |-> l.lo])]

\* write_bit: self.pin.set_high().ok()
BitSetHigh ==
  /\ pc = "write_bit"
  /\ BitStmts(bit)[step] = "set_high"
  /\ \E ok \in BOOLEAN :
       /\ level' = PinSet(level, "high", ok)
       /\ lastOk' = ok
       /\ BitAdvance([log EXCEPT !.nHigh = @ + 1,
                                 !.bitEv = Append(@, "set_high"),
                                 !.failed = @ \/ ~ok],
                     AfterPinOp(ok, "write_bit"))
  /\ lastOp' = "set_high"
  /\ UNCHANGED << calc, magic_number, iterator, idx, chan, bit, latch_i, result,
                  prev >>

\* write_bit: self.pin.set_low().ok()
BitSetLow ==
  /\ pc = "write_bit"
  /\ BitStmts(bit)[step] = "set_low"
  /\ \E ok \in BOOLEAN :
       /\ level' = PinSet(level, "low", ok)
       /\ lastOk' = ok
       /\ BitAdvance([log EXCEPT !.nLow = @ + 1,
                                 !.bitEv = Append(@, "set_low"),
                                 !.failed = @ \/ ~ok],
                     AfterPinOp(ok, "write_bit"))
  /\ lastOp' = "set_low"
  /\ UNCHANGED << calc, magic_number, iterator, idx, chan, bit, latch_i, result,
                  prev >>

\* write_bit: self.wait(); the loop iterations count towards the high time
\* after set_high and towards the low time after set_low
BitWait ==
  /\ pc = "write_bit"
  /\ BitStmts(bit)[step] = "wait"
  /\ BitAdvance([log EXCEPT !.nWait = @ + 1,
                            !.bitEv = Append(@, "wait"),
                            !.hi = IF lastOp = "set_high"
                                     THEN @ + WaitLoops(magic_number) ELSE @,
                            !.lo = IF lastOp = "set_high"
                                     THEN @ ELSE @ + WaitLoops(magic_number)],
                "write_bit")
  /\ UNCHANGED << calc, magic_number, level, lastOp, lastOk, iterator, idx, chan,
                  bit, latch_i, result, prev >>

\* a latch whose delay loop counts the magic_number field itself down
LatchWaitCountdown ==
  /\ pc = "latch"
  /\ latch_i < LatchUnits
  /\ latch_i' = latch_i + 1
  /\ magic_number' = 0
  /\ log' = [log EXCEPT !.nWait = @ + 1, !.latchWaits = @ + 1,
                        !.latchLoops = @ + WaitLoops(magic_number)]
  /\ UNCHANGED << calc, pc, level, lastOp, lastOk, iterator, idx, chan, data,
                  i, bit, step, result, prev >>

\* write: for _ in 0..20 { self.wait(); }
LatchWait ==
  /\ pc = "latch"
  /\ latch_i < LatchUnits
  /\ latch_i' = latch_i + 1
  /\ log' = [log EXCEPT !.nWait = @ + 1, !.latchWaits = @ + 1,
                        !.latchLoops = @ + WaitLoops(magic_number)]
  /\ UNCHANGED << calc, pc, magic_number, level, lastOp, lastOk, iterator, idx,
                  chan, data, i, bit, step, result, prev >>

\* write: Ok(())
WriteReturn ==
  /\ pc = "latch"
  /\ latch_i >= LatchUnits
  /\ pc' = "idle"
  /\ result' = WriteResult(log.failed)
  /\ UNCHANGED << calc, magic_number, level, lastOp, lastOk, iterator, idx, chan,
                  data, i, bit, step, latch_i, log, prev >>

\* "Calculate your own magic number": the formula evaluated for a clock
Calculate(clock) ==
  /\ calc' = [ valid |-> TRUE, clock |-> clock, exact |-> MagicFormula(clock) ]
  /\ UNCHANGED << pc, magic_number, level, lastOp, lastOk, iterator, idx,
                  chan, data, i, bit, step, latch_i, result, log, prev >>

\* the steps of one write call, from its entry to its return
WriteSteps ==
  \/ WriteLoop
  \/ WriteLoopEnd
  \/ WriteByteLoop
  \/ WriteByteReturn
  \/ BitSetHigh
  \/ BitSetLow
  \/ BitWait
  \/ LatchWait
  \/ WriteReturn

\* the caller of the driver specification
SetMagic == \E num \in MagicVals : SetMagicNumber(num)

WriteCall == \E cs \in ColorSeqs : Write(cs)

Next ==
  \/ New
  \/ SetMagic
  \/ WriteCall
  \/ WriteSteps

\* the driver: construction, then any interleaving of set_magic_number and
\* write calls
Spec == Init /\ [][Next]_vars

\* ------------------------------------------------- magic number formula
\* clock speeds, in MHz, the formula is evaluated for
Clocks == 1 .. MaxClockMHz

Calibrate == \E clock \in Clocks : Calculate(clock)

NextCal ==
  \/ New
  \/ Calibrate

\* the constructor and any number of evaluations of the formula
SpecCal == Init /\ [][NextCal]_vars

\* ------------------------------------------------ one write call, alone
\* the driver at the entry of write(cs): constructed by new (whose set_low
\* succeeded, or failed and left the pin as it was), magic number m
AtWriteEntry(m, cs) ==
  /\ pc = "write"
  /\ magic_number = m
  /\ level \in Levels
  /\ lastOp = "set_low"
  /\ lastOk \in BOOLEAN
  /\ lastOk => level = "low"
  /\ iterator = cs
  /\ idx = 1
  /\ chan = 1
  /\ data = 0
  /\ i = 0
  /\ bit = FALSE
  /\ step = 1
  /\ latch_i = 0
  /\ result = "none"
  /\ log = NewLog(m)
  /\ prev = NoPrev
  /\ calc = NoCalc

\* write(<<c>>) on a driver as constructed, for colours covering every byte
InitByte == \E c \in ByteColors : AtWriteEntry(DefaultMagic, << c >>)

SpecByte == InitByte /\ [][WriteSteps]_vars

\* write of no colour or of one colour, after set_magic_number(m) for any u8 m
ShortSeqs == { << >> } \cup { << c >> : c \in Colors }

InitMagic == \E m \in Byte : \E cs \in ShortSeqs : AtWriteEntry(m, cs)

SpecMagic == InitMagic /\ [][WriteSteps]_vars

\* the same call on a processor that keeps executing: write is a plain
\* synchronous function, so a step that can be taken is taken
SpecTerm == InitMagic /\ [][WriteSteps]_vars /\ WF_vars(WriteSteps)

\* ---------------------------------------------------------- observations
\* a write call has returned and nothing was called since
Returned == pc = "idle" /\ result # "none"

\* the protocol order of the channel bytes of a colour sequence: for the
\* k-th byte, colour (k-1) \div 3 + 1, channel green, red or blue
GRB(cs) ==
  [ k \in 1 .. 3 * Len(cs) |->
      LET c == cs[((k - 1) \div 3) + 1] IN
        CASE (k - 1) % 3 = 0 -> c.g
          [] (k - 1) % 3 = 1 -> c.r
          [] OTHER           -> c.b ]

\* a pulse read back as a bit: 1 when it is longer high than low
PulseBit(p) == p.hi > p.lo

\* the number a sequence of bits spells, most significant bit first
RECURSIVE BitsValue(_)
BitsValue(bs) ==
  IF bs = << >> THEN 0
  ELSE 2 * BitsValue(SubSeq(bs, 1, Len(bs) - 1)) + (IF bs[Len(bs)] THEN 1 ELSE 0)

\* the byte read back from the 8 pulses that follow the first 8 * (k - 1)
ReadBack(k) == BitsValue([ j \in 1 .. 8 |-> PulseBit(log.pulses[8 * (k - 1) + j]) ])

\* write_bit is between its set_high and its set_low statement
InPulse == pc = "write_bit" /\ step >= 2 /\ step <= (IF bit THEN 4 ELSE 3)

\* the bit values handed to write_bit, in order
BitValues(ps) == [ k \in 1 .. Len(ps) |-> ps[k].bit ]

\* ------------------------------------------------------------------ C1
\* C1: the bytes handed to write_byte are, at every moment of a write, a
\* prefix of the colours' channels taken colour by colour in sequence order,
\* each colour as green, red, blue; when write returns they are all of them.
C1_ByteOrderGRB ==
  /\ Len(log.bytes) <= 3 * Len(iterator)
  /\ log.bytes = SubSeq(GRB(iterator), 1, Len(log.bytes))
  /\ Returned => log.bytes = GRB(iterator)

C1_Witness ==
  /\ Returned
  /\ Len(iterator) = 2
  /\ iterator[1] # iterator[2]
  /\ iterator[1].g # iterator[1].r
  /\ Len(log.bytes) = 6

\* ------------------------------------------------------------------ C2
\* C2: with magic number 50, whenever write_byte is not running every byte
\* handed to it so far has produced exactly 8 pulses, and reading each pulse
\* as 1 when its high time exceeds its low time spells the byte, most
\* significant bit first.
C2_ByteReadBack ==
  pc \in {"write", "latch", "idle"} =>
    /\ Len(log.pulses) = 8 * Len(log.bytes)
    /\ \A k \in 1 .. Len(log.bytes) : ReadBack(k) = log.bytes[k]

C2_Witness ==
  /\ Returned
  /\ log.magic = 50
  /\ log.bytes = << 165, 250, 79 >>
  /\ ReadBack(1) = 165

\* ------------------------------------------------------------------ C3
\* C3: a write of N colours never has more than one set_high outstanding,
\* and returns after exactly 24 * N pulses (24 * N set_high, 24 * N set_low)
\* and, apart from the latch, exactly the three delay units of each bit.
C3_FrameBitCount ==
  /\ log.nLow <= log.nHigh
  /\ log.nHigh <= log.nLow + 1
  /\ Returned =>
       /\ Len(log.pulses) = 24 * Len(iterator)
       /\ log.nHigh = 24 * Len(iterator)
       /\ log.nLow = 24 * Len(iterator)
       /\ log.nWait - log.latchWaits = 3 * 24 * Len(iterator)

C3_Witness ==
  /\ Returned
  /\ Len(iterator) = 2
  /\ Len(log.pulses) = 48
  /\ log.nWait - log.latchWaits = 144

\* ------------------------------------------------------------------ C4
\* C4: a write of the empty sequence calls neither set_high nor set_low nor
\* write_byte, and returns after exactly 20 calls of wait.
C4_EmptyFrame ==
  (pc # "start" /\ iterator = << >>) =>
    /\ log.nHigh = 0
    /\ log.nLow = 0
    /\ log.bytes = << >>
    /\ log.nWait = log.latchWaits
    /\ Returned => log.nWait = 20

C4_Witness ==
  /\ Returned
  /\ iterator = << >>
  /\ log.nWait = 20
  /\ prev.valid
  /\ prev.colors # << >>

\* ------------------------------------------------------------------ C5
\* C5: every write that returns, returns Ok, also when pin calls failed.
C5_AlwaysOk ==
  /\ result \in {"none", "Ok"}
  /\ (pc = "idle" /\ log.latchWaits > 0) => result = "Ok"

C5_Witness ==
  /\ Returned
  /\ result = "Ok"
  /\ log.failed
  /\ iterator # << >>

\* ------------------------------------------------------------------ C6
\* C6 as claimed: once the driver exists, the pin level is low in every
\* state in which no bit-pulse is in progress.
C6_RestsLow ==
  (pc # "start" /\ ~InPulse) => level = "low"

\* C6 as amended: once the driver exists, in every state in which no
\* bit-pulse is in progress the last pin call attempted is set_low, and the
\* pin level is low whenever that call succeeded.
C6_RestsLowIfSet ==
  (pc # "start" /\ ~InPulse) =>
    /\ lastOp = "set_low"
    /\ lastOk => level = "low"

C6_Witness ==
  /\ Returned
  /\ prev.valid
  /\ prev.colors # << >>
  /\ iterator # << >>
  /\ log.failed
  /\ lastOk
  /\ level = "low"

\* ------------------------------------------------------------------ C7
\* C7 as claimed: for every magic number, a pulse for bit 1 is strictly
\* longer high than low and a pulse for bit 0 strictly longer low than high,
\* in delay-loop iterations.
C7_Asymmetry ==
  \A k \in 1 .. Len(log.pulses) :
    LET p == log.pulses[k] IN
      IF p.bit THEN p.hi > p.lo ELSE p.hi < p.lo

\* C7 as amended: for every magic number m from 1 to 255 a pulse for bit 1
\* is 2 * m iterations high and m low, a pulse for bit 0 m high and 2 * m
\* low, so the strict inequalities hold; for magic number 0 every pulse is
\* 0 iterations high and 0 low.
C7_AsymmetryPositive ==
  \A k \in 1 .. Len(log.pulses) :
    LET p == log.pulses[k] IN
      /\ p.hi = (IF p.bit THEN 2 ELSE 1) * log.magic
      /\ p.lo = (IF p.bit THEN 1 ELSE 2) * log.magic
      /\ log.magic >= 1 => (IF p.bit THEN p.hi > p.lo ELSE p.hi < p.lo)
      /\ log.magic = 0 => (p.hi = 0 /\ p.lo = 0)

C7_Witness ==
  /\ Returned
  /\ log.magic = 255
  /\ \E k \in 1 .. Len(log.pulses) : log.pulses[k].bit /\ log.pulses[k].hi = 510
  /\ \E k \in 1 .. Len(log.pulses) : ~log.pulses[k].bit /\ log.pulses[k].lo = 510

\* ------------------------------------------------------------------ C8
\* C8: when a write returns and the write before it had the same colours
\* but another magic number, both handed the same bytes to write_byte and
\* the same bit values to write_bit, in the same order, and every phase of
\* the second (each pulse's high or low time of a 1 or a 0, and the latch)
\* lasts a different number of loop iterations than in the first.
C8_MagicChangesOnlyDurations ==
  (Returned /\ prev.valid /\ prev.colors = iterator /\ prev.magic # log.magic) =>
    /\ log.bytes = prev.bytes
    /\ BitValues(log.pulses) = BitValues(prev.pulses)
    /\ log.latchLoops # prev.latchLoops
    /\ \A k \in 1 .. Len(log.pulses) :
         /\ log.pulses[k].hi # prev.pulses[k].hi
         /\ log.pulses[k].lo # prev.pulses[k].lo

C8_Witness ==
  /\ Returned
  /\ prev.valid
  /\ prev.colors = iterator
  /\ Len(iterator) = 2
  /\ prev.magic = 0
  /\ log.magic = 50
  /\ log.pulses[1].hi # prev.pulses[1].hi

C10_Terminates == <>(pc = "idle" /\ result # "none")

C10_Witness ==
  /\ Returned
  /\ log.failed
  /\ ~lastOk
  /\ log.magic = 255
  /\ Len(log.pulses) = 24

\* ----------------------------------------------------------------- C11
\* C11: no pin call is made before new; the only step an execution can take
\* before the driver exists is new, which attempts set_low, sets the magic
\* number to 50 and hands out the driver; a driver that exists has had a
\* pin call attempted, so the first pin call of every execution is the
\* constructor's set_low.
C11_NewSetsLow ==
  [][ /\ pc = "start" => /\ lastOp = "none"
                         /\ lastOp' = "set_low"
                         /\ magic_number' = 50
                         /\ pc' = "idle"
      /\ pc # "start" => lastOp # "none" ]_vars

C11_Witness ==
  /\ pc = "idle"
  /\ result = "none"
  /\ ~prev.valid
  /\ lastOp = "set_low"
  /\ ~lastOk
  /\ level = "high"
  /\ magic_number = 50

\* ----------------------------------------------------------------- C12
\* C12 as claimed: from one evaluation of the formula to the next at an
\* equal or faster clock, the loop count, cut off to an integer, does not
\* grow.
C12_NonIncreasing ==
  [][ (calc.valid /\ calc'.valid /\ calc'.clock >= calc.clock) =>
        Trunc(calc'.exact) <= Trunc(calc.exact) ]_vars

\* C12 as amended: from one evaluation of the formula to the next at an
\* equal or faster clock, the loop count, cut off to an integer, does not
\* shrink: a faster clock needs at least as many loops for the same delay.
C12_NonDecreasing ==
  [][ (calc.valid /\ calc'.valid /\ calc'.clock >= calc.clock) =>
        Trunc(calc'.exact) >= Trunc(calc.exact) ]_vars

C12_Witness ==
  /\ calc.valid
  /\ calc.clock = 720
  /\ Trunc(calc.exact) = 59

\* ----------------------------------------------------------------- C18
\* C18 as claimed: the magic number of a driver as constructed equals the
\* formula's value at 600 MHz cut off to an integer.
C18_DefaultIsTruncated ==
  (pc = "idle" /\ calc.valid /\ calc.clock = ExampleClockMHz) =>
    magic_number = Trunc(calc.exact)

\* C18 as amended: the magic number of a driver as constructed, 50, equals
\* the formula's value at 600 MHz (333 ns, 4 cycles per loop) rounded to the
\* nearest integer; the value is 49.95 (1998/40), which cut off is 49.
C18_DefaultIsRounded ==
  (pc = "idle" /\ calc.valid /\ calc.clock = ExampleClockMHz) =>
    /\ magic_number = RoundNearest(calc.exact)
    /\ magic_number = 50
    /\ Trunc(calc.exact) = 49
    /\ 40 * calc.exact[1] = 1998 * calc.exact[2]

C18_Witness ==
  /\ pc = "idle"
  /\ calc.valid
  /\ calc.clock = 600
  /\ magic_number = 50
  /\ RoundNearest(calc.exact) = 50

\* ----------------------------------------------------------------- C13
\* the event sequence the documentation gives for a bit
PatternOf(b) ==
  IF b THEN << "set_high", "wait", "wait", "set_low", "wait" >>
       ELSE << "set_high", "wait", "set_low", "wait", "wait" >>

\* C13: while write_bit runs, the pin calls and delay units it has made are
\* the first ones of [set_high, wait, wait, set_low, wait] for a 1 and of
\* [set_high, wait, set_low, wait, wait] for a 0; when it has returned they
\* are exactly that sequence.
C13_BitEvents ==
  /\ pc = "write_bit" =>
       /\ step <= 5
       /\ log.bitEv = SubSeq(PatternOf(bit), 1, step - 1)
  /\ (pc # "write_bit" /\ log.pulses # << >>) =>
       log.bitEv = PatternOf(log.pulses[Len(log.pulses)].bit)

C13_Witness ==
  /\ Returned
  /\ log.pulses # << >>
  /\ log.pulses[Len(log.pulses)].bit
  /\ log.bitEv = << "set_high", "wait", "wait", "set_low", "wait" >>
  /\ \E k \in 1 .. Len(log.pulses) : ~log.pulses[k].bit

\* ----------------------------------------------------------------- C14
\* C14: for every magic number m, every pulse, of a 0 as of a 1, lasts
\* 3 * m loop iterations from set_high to the end of the bit, and a write
\* has made exactly three wait calls per pulse outside the latch.
C14_ConstantPeriod ==
  /\ \A k \in 1 .. Len(log.pulses) :
       log.pulses[k].hi + log.pulses[k].lo = 3 * log.magic
  /\ pc # "write_bit" => log.nWait - log.latchWaits = 3 * Len(log.pulses)

C14_Witness ==
  /\ Returned
  /\ log.magic = 255
  /\ \E k \in 1 .. Len(log.pulses) :
       log.pulses[k].bit /\ log.pulses[k].hi + log.pulses[k].lo = 765
  /\ \E k \in 1 .. Len(log.pulses) :
       ~log.pulses[k].bit /\ log.pulses[k].hi + log.pulses[k].lo = 765

\* ----------------------------------------------------------------- C15
\* bit k of a byte sequence, bytes in order, each most significant bit first
StreamBit(bytes, k) ==
  (bytes[((k - 1) \div 8) + 1] \div (2 ^ (7 - ((k - 1) % 8)))) % 2 = 1

\* C15: what a write does is fixed by the colours alone, whichever pin
\* calls fail: each bit handed to write_bit, and at return all of them, are
\* those of the colours' g, r, b bytes, between bits the numbers of set_high calls, set_low calls
\* and delay units are those of the bits done so far, at return they are
\* 24 * N, 24 * N and 72 * N + 20, and during the write the magic number is
\* the one the write started with.
C15_FailuresDiscarded ==
  /\ Len(log.pulses) <= 24 * Len(iterator)
  /\ log.pulses # << >> =>
       log.pulses[Len(log.pulses)].bit = StreamBit(GRB(iterator), Len(log.pulses))
  /\ pc \in {"write", "write_byte", "write_bit", "latch"} =>
       magic_number = log.magic
  /\ pc = "write_byte" =>
       /\ Len(log.pulses) = 8 * (Len(log.bytes) - 1) + i
       /\ log.nHigh = Len(log.pulses)
       /\ log.nLow = Len(log.pulses)
       /\ log.nWait = 3 * Len(log.pulses)
  /\ Returned =>
       /\ log.nHigh = 24 * Len(iterator)
       /\ log.nLow = 24 * Len(iterator)
       /\ log.nWait = 72 * Len(iterator) + 20
       /\ log.bytes = GRB(iterator)
       /\ LET bytes == GRB(iterator) IN
            \A k \in 1 .. Len(log.pulses) : log.pulses[k].bit = StreamBit(bytes, k)

C15_Witness ==
  /\ Returned
  /\ log.failed
  /\ ~lastOk
  /\ Len(iterator) = 2
  /\ log.nHigh = 48
  /\ log.nWait = 164
  /\ magic_number = log.magic

\* ----------------------------------------------------------------- C16
\* C16: no step of write changes the magic number, which stays the one the
\* write started with, so the pulse under way has lasted at most, and every
\* pulse of the finished frame exactly, 3 times that many loop iterations,
\* and every latch unit that many; the magic number of an
\* existing driver changes only in a step between two writes, which is a
\* set_magic_number call.
C16_MagicFixedInFrame ==
  [][ /\ pc \notin {"start", "idle"} =>
           /\ magic_number' = magic_number
           /\ magic_number = log.magic
           /\ log.latchLoops = log.latchWaits * magic_number
           /\ log.hi + log.lo <= 3 * magic_number
           /\ pc = "latch" =>
                \A k \in 1 .. Len(log.pulses) :
                  log.pulses[k].hi + log.pulses[k].lo = 3 * magic_number
      /\ (pc # "start" /\ magic_number' # magic_number) =>
           (pc = "idle" /\ pc' = "idle") ]_vars

C16_Witness ==
  /\ Returned
  /\ iterator # << >>
  /\ prev.valid
  /\ prev.magic # log.magic
  /\ magic_number # log.magic

\* ----------------------------------------------------------------- C17
\* C17: the first pin call is set_low; every set_high call comes right after
\* a set_low call and every set_low call of a write right after a set_high
\* call, across bits, bytes, colours and writes; a step between two writes
\* (set_magic_number) makes no pin call.
C17_PinCallsAlternate ==
  [][ /\ lastOp = "none" => lastOp' \in {"none", "set_low"}
      /\ log'.nHigh = log.nHigh + 1 =>
           (lastOp = "set_low" /\ lastOp' = "set_high")
      /\ log'.nLow = log.nLow + 1 =>
           (lastOp = "set_high" /\ lastOp' = "set_low")
      /\ (lastOp # "none" /\ lastOp' # lastOp) =>
           (log'.nHigh = log.nHigh + 1 \/ log'.nLow = log.nLow + 1)
      /\ (pc = "idle" /\ pc' = "idle") =>
           UNCHANGED << level, lastOp, lastOk, log >> ]_vars

C17_Witness ==
  /\ Returned
  /\ prev.valid
  /\ prev.colors # << >>
  /\ prev.magic # log.magic
  /\ log.nHigh = 48
  /\ log.nLow = 48
  /\ lastOp = "set_low"

====
